---- MODULE Spec2Model ----
(***************************************************************************)
(* Model of style.py: the style engine (FontStyles), the ephemeral text   *)
(* registry (TextStorage) and the handlers of BotHandlers that glue them  *)
(* to a paginated listing.                                                 *)
(*                                                                         *)
(* A Python str is a sequence of Unicode code points (naturals); len(),   *)
(* slicing, str.translate and str.format work on code points, and so do   *)
(* Len, SubSeq, translate and format below.                                *)
(***************************************************************************)
EXTENDS Integers, Sequences, FiniteSets, TLC

VARIABLES
    TRANSLATION_TABLES, \* FontStyles.TRANSLATION_TABLES: font name -> translation table
    storage,            \* TextStorage._storage: fingerprint -> text
    user_data,          \* context.user_data of the one chat: key -> value
    call                \* the last completed call: operation, arguments, result, output

vars == <<TRANSLATION_TABLES, storage, user_data, call>>

\* ------------------------------------------------------------------ bounds
MaxLen == 2             \* longest text drawn over CharSample
HashSpace == 1048576    \* number of fingerprints of the digest model
MaxPage == 2            \* page_N callbacks carry N in -MaxPage .. MaxPage, and 99
MaxRandom == 1          \* random.choice and randint draw among the first MaxRandom values
MaxItems == 23          \* longest style list paginated
MaxThreads == 2         \* update-processing threads running at once
MaxRequests == 2        \* POSTs to /webhook in one run

\* ------------------------------------------------------- program constants
ITEMS_PER_PAGE == 10
MAX_NAME_LENGTH == 30

\* ------------------------------------------------------------ generic helpers
Range(s) == {s[i] : i \in 1..Len(s)}

Min(a, b) == IF a < b THEN a ELSE b

Max(a, b) == IF a > b THEN a ELSE b

RECURSIVE SeqsUpTo(_, _)
SeqsUpTo(S, n) ==
    IF n = 0 THEN {<<>>}
    ELSE LET shorter == SeqsUpTo(S, n - 1)
         IN  shorter \cup {Append(s, c) : s \in {t \in shorter : Len(t) = n - 1}, c \in S}

\* dict.get(key, default)
Get(d, k, default) == IF k \in DOMAIN d THEN d[k] ELSE default

\* an assignment that loses the other entries of the dict
put_alone(d, k, v) == [x \in {k} |-> v]

\* d[key] = value
Put(d, k, v) == [x \in DOMAIN d \cup {k} |-> IF x = k THEN v ELSE d[x]]

EmptyDict == [x \in {} |-> 0]

\* dict.values()
Range2(d) == {d[k] : k \in DOMAIN d}

\* ------------------------------------------------------------ FontStyles data
NORMAL ==
    <<97, 98, 99, 100, 101, 102, 103, 104, 105, 106, 107, 108, 109, 110, 111, 112, 113,
    114, 115, 116, 117, 118, 119, 120, 121, 122, 65, 66, 67, 68, 69, 70, 71, 72, 73, 74,
    75, 76, 77, 78, 79, 80, 81, 82, 83, 84, 85, 86, 87, 88, 89, 90, 48, 49, 50, 51, 52,
    53, 54, 55, 56, 57>>

bold_chars ==
    <<120302, 120303, 120304, 120305, 120306, 120307, 120308, 120309, 120310, 120311,
    120312, 120313, 120314, 120315, 120316, 120317, 120318, 120319, 120320, 120321,
    120322, 120323, 120324, 120325, 120326, 120327, 120276, 120277, 120278, 120279,
    120280, 120281, 120282, 120283, 120284, 120285, 120286, 120287, 120288, 120289,
    120290, 120291, 120292, 120293, 120294, 120295, 120296, 120297, 120298, 120299,
    120300, 120301, 120812, 120813, 120814, 120815, 120816, 120817, 120818, 120819,
    120820, 120821>>

italic_chars ==
    <<120354, 120355, 120356, 120357, 120358, 120359, 120360, 120361, 120362, 120363,
    120364, 120365, 120366, 120367, 120368, 120369, 120370, 120371, 120372, 120373,
    120374, 120375, 120376, 120377, 120378, 120379, 120328, 120329, 120330, 120331,
    120332, 120333, 120334, 120335, 120336, 120337, 120338, 120339, 120340, 120341,
    120342, 120343, 120344, 120345, 120346, 120347, 120348, 120349, 120350, 120351,
    120456, 120457, 48, 49, 50, 51, 52, 53, 54, 55, 56, 57>>

\* the font collection, in dict order
FONT_NAMES == <<"bold", "italic">>

FONTS == [f \in Range(FONT_NAMES) |-> IF f = "bold" THEN bold_chars ELSE italic_chars]

small_caps_chars ==
    <<7424, 665, 7428, 7429, 7431, 1171, 610, 668, 618, 7434, 7435, 671, 7437, 628, 7439,
    7448, 491, 640, 115, 7451, 7452, 7456, 7457, 120, 655, 7458, 7424, 665, 7428, 7429,
    7431, 1171, 610, 668, 618, 7434, 7435, 671, 7437, 628, 7439, 7448, 491, 640, 115,
    7451, 7452, 7456, 7457, 120, 655, 7458, 48, 49, 50, 51, 52, 53, 54, 55, 56, 57>>

\* "꧁{}꧂", "⫷{}⫸", "😈{}😈", "👑{}👑"   ('{' is 123, '}' is 125)
DECORATIVE_STYLES ==
    << <<43457, 123, 125, 43458>>, <<10999, 123, 125, 11000>>,
       <<128520, 123, 125, 128520>>, <<128081, 123, 125, 128081>> >>

\* ('bold', '꧁{}꧂'), ('italic', '『{}』'), ('monospace', '♛{}♛')
special_combos ==
    << <<"bold", <<43457, 123, 125, 43458>> >>,
       <<"italic", <<12302, 123, 125, 12303>> >>,
       <<"monospace", <<9819, 123, 125, 9819>> >> >>

\* ------------------------------------------------------------ str methods
\* str.maketrans(x, y) for len(x) = len(y): ord(x[i]) -> ord(y[i]), a later i winning
maketrans(x, y) ==
    [c \in Range(x) |->
        y[CHOOSE i \in 1..Len(x) : x[i] = c /\ \A j \in (i + 1)..Len(x) : x[j] # c]]

\* the lower-case letter of an upper-case one, any other code point as it is
Lower(c) == IF c >= 65 /\ c <= 90 THEN c + 32 ELSE c

\* the upper-case letter of a lower-case one, any other code point as it is
Upper(c) == IF c >= 97 /\ c <= 122 THEN c - 32 ELSE c

\* mutant of translate: looks every character up by its lower-case form
translate_lower(text, table) ==
    [i \in 1..Len(text) |->
        IF Lower(text[i]) \in DOMAIN table THEN table[Lower(text[i])] ELSE text[i]]

\* mutant of translate: drops the characters the table does not map
translate_drop(text, table) ==
    LET kept == SelectSeq(text, LAMBDA c : c \in DOMAIN table)
    IN  [i \in 1..Len(kept) |-> table[kept[i]]]

\* str.translate(table) with a table that maps code points to code points
translate(text, table) ==
    [i \in 1..Len(text) |-> IF text[i] \in DOMAIN table THEN table[text[i]] ELSE text[i]]

\* list[:n]
Take(s, n) == SubSeq(s, 1, Min(n, Len(s)))

SMALL_CAPS_FONT == maketrans(NORMAL, small_caps_chars)

\* ------------------------------------------------------------ FontStyles
\* _init_translation_tables: fills the cache once, skipping a font whose length differs
init_translation_tables(tables) ==
    IF tables = EmptyDict
    THEN [f \in {g \in DOMAIN FONTS : Len(NORMAL) = Len(FONTS[g])} |->
             maketrans(NORMAL, FONTS[f])]
    ELSE tables

FULL_TABLES == init_translation_tables(EmptyDict)

\* generate_mixed_styles: fonts[:20] x decorations[:50][:20], then the special combos
RECURSIVE Product(_, _, _)
Product(fonts, decorations, k) ==
    IF k > Len(fonts) * Len(decorations) THEN <<>>
    ELSE << <<fonts[((k - 1) \div Len(decorations)) + 1],
              decorations[((k - 1) % Len(decorations)) + 1]>> >>
         \o Product(fonts, decorations, k + 1)

MIXED_STYLES ==
    Product(Take(FONT_NAMES, 20), Take(Take(DECORATIVE_STYLES, 50), 20), 1) \o special_combos

\* the tables apply_font works with: the cache, initialised when it is empty
tables_after_call(tables) == IF tables = EmptyDict THEN init_translation_tables(tables) ELSE tables

\* FontStyles.apply_font, the cache TRANSLATION_TABLES being `tables` at the call
apply_font(tables, text, font_name) ==
    LET tt == tables_after_call(tables)
    IN  IF font_name = "small_caps" THEN translate(text, SMALL_CAPS_FONT)
        ELSE IF font_name \in DOMAIN tt /\ tt[font_name] # EmptyDict
             THEN translate(text, tt[font_name])
             ELSE text

\* ------------------------------------------------------------ str.format
\* the outcome of a call: a returned value, or a raised exception
Returned(v) == [raised |-> FALSE, val |-> v]

Raised(e) == [raised |-> TRUE, exc |-> e]

\* the outcome of prepending the literal text `head` to the outcome `rest`
Prepend(head, rest) == IF rest.raised THEN rest ELSE Returned(head \o rest.val)

\* template.format(arg) scanned from position i, `used` fields substituted so far.
\* '{{' and '}}' are literal braces, '{}' is the next positional field (only index 0
\* exists: a second one raises IndexError), '{' + name + '}' is a keyword field
\* (KeyError: no keyword is passed), a lone brace raises ValueError. The argument is
\* inserted as it is and never scanned. Templates are made of braces and decoration
\* characters (no digit, '!', ':', '.', '[' inside a field).
RECURSIVE format_from(_, _, _, _)
format_from(template, i, used, arg) ==
    IF i > Len(template) THEN Returned(<<>>)
    ELSE IF template[i] = 123
    THEN IF i = Len(template) THEN Raised("ValueError")
         ELSE IF template[i + 1] = 123
              THEN Prepend(<<123>>, format_from(template, i + 2, used, arg))
         ELSE IF template[i + 1] = 125
              THEN IF used >= 1 THEN Raised("IndexError")
                   ELSE Prepend(arg, format_from(template, i + 2, used + 1, arg))
         ELSE IF \E j \in (i + 1)..Len(template) : template[j] = 125
              THEN Raised("KeyError")
              ELSE Raised("ValueError")
    ELSE IF template[i] = 125
    THEN IF i < Len(template) /\ template[i + 1] = 125
         THEN Prepend(<<125>>, format_from(template, i + 2, used, arg))
         ELSE Raised("ValueError")
    ELSE Prepend(<<template[i]>>, format_from(template, i + 1, used, arg))

\* mutant of format: formats the result once more (recursive substitution)
format_twice(template, arg) ==
    LET once == format_from(template, 1, 0, arg)
    IN  IF once.raised THEN once ELSE format_from(once.val, 1, 0, arg)

\* template.format(arg)
format(template, arg) == format_from(template, 1, 0, arg)

\* ------------------------------------------------------------ rendering
\* FontStyles.apply_style; an omitted (None) or empty style_template is falsy and is
\* modelled by the empty value of the kind: "" for a font name, <<>> otherwise
apply_style(tables, text, style_type, style_template) ==
    IF style_type = "font" /\ style_template # ""
    THEN Returned(apply_font(tables, text, style_template))
    ELSE IF style_type = "decorative" /\ style_template # <<>>
    THEN format(style_template, text)
    ELSE IF style_type = "art" /\ style_template # <<>>
    THEN format(style_template, text)
    ELSE IF style_type = "mixed" /\ style_template # <<>>
    THEN format(style_template[2], apply_font(tables, text, style_template[1]))
    ELSE Returned(text)

\* mutant of generate_styled_text: the mixed kind wraps the name without the font
generate_styled_text_unfonted(tables, name, category, style) ==
    IF category = "fonts" THEN Returned(apply_font(tables, name, style))
    ELSE IF category = "mixed" THEN format(style[2], name)
    ELSE IF category \in {"decorative", "art"} THEN format(style, name)
    ELSE Returned(name)

\* BotHandlers._generate_styled_text
generate_styled_text(tables, name, category, style) ==
    IF category = "fonts" THEN Returned(apply_font(tables, name, style))
    ELSE IF category = "decorative" THEN format(style, name)
    ELSE IF category = "art" THEN format(style, name)
    ELSE IF category = "mixed" THEN format(style[2], apply_font(tables, name, style[1]))
    ELSE Returned(name)

\* the rendering of one iteration of BotHandlers.generate_random_name, its random
\* choices (category, style or font and decoration) passed in
random_styled_text(tables, name, category, font, decor) ==
    IF category = "decorative" THEN format(decor, name)
    ELSE IF category = "fonts" THEN Returned(apply_font(tables, name, font))
    ELSE IF category = "art" THEN format(decor, name)
    ELSE format(decor, apply_font(tables, name, font))

\* ------------------------------------------------------------ TextStorage
RECURSIVE SumCodes(_, _)
SumCodes(text, i) == IF i > Len(text) THEN 0 ELSE text[i] + SumCodes(text, i + 1)

\* hashlib.md5(text.encode()).hexdigest()[:16]: a deterministic digest of fixed width,
\* hence not injective. Modelled by a checksum into HashSpace fingerprints, which
\* collides on texts with the same code points in another order.
md5_hexdigest16(text) == (Len(text) + SumCodes(text, 1)) % HashSpace

\* store_text that starts the registry afresh on every call
store_text_reset(st, text) ==
    LET text_hash == md5_hexdigest16(text)
    IN  [storage |-> Put(EmptyDict, text_hash, text), ret |-> text_hash]

\* store_text whose fingerprint also depends on how many entries the registry holds
store_text_salted(st, text) ==
    LET text_hash == (md5_hexdigest16(text) + Cardinality(DOMAIN st)) % HashSpace
    IN  [storage |-> Put(st, text_hash, text), ret |-> text_hash]

\* TextStorage.store_text on the registry `st`: the registry after it, and its result
store_text(st, text) ==
    LET text_hash == md5_hexdigest16(text)
    IN  [storage |-> Put(st, text_hash, text), ret |-> text_hash]

\* get_text that returns the first 15 characters of the text held
get_text_truncated(st, text_hash) == Take(Get(st, text_hash, <<>>), 15)

\* get_text that answers "?" for a fingerprint the registry does not hold
get_text_placeholder(st, text_hash) == Get(st, text_hash, <<63>>)

\* TextStorage.get_text on the registry `st`
get_text(st, text_hash) == Get(st, text_hash, <<>>)

\* ------------------------------------------------------------ random names
\* Shadow, Dark, Neo, Royal, Crimson, Ghost, Night, Demon,
\* Cyber, Steel, Iron, Golden, Silver, Phantom, Mystic
first_parts ==
    << <<83, 104, 97, 100, 111, 119>>,
       <<68, 97, 114, 107>>,
       <<78, 101, 111>>,
       <<82, 111, 121, 97, 108>>,
       <<67, 114, 105, 109, 115, 111, 110>>,
       <<71, 104, 111, 115, 116>>,
       <<78, 105, 103, 104, 116>>,
       <<68, 101, 109, 111, 110>>,
       <<67, 121, 98, 101, 114>>,
       <<83, 116, 101, 101, 108>>,
       <<73, 114, 111, 110>>,
       <<71, 111, 108, 100, 101, 110>>,
       <<83, 105, 108, 118, 101, 114>>,
       <<80, 104, 97, 110, 116, 111, 109>>,
       <<77, 121, 115, 116, 105, 99>> >>

\* Killer, Hunter, Rider, Warrior, Slayer, Assassin, Master, Lord,
\* King, Queen, Prince, Legend, Hero, Ninja, Samurai
second_parts ==
    << <<75, 105, 108, 108, 101, 114>>,
       <<72, 117, 110, 116, 101, 114>>,
       <<82, 105, 100, 101, 114>>,
       <<87, 97, 114, 114, 105, 111, 114>>,
       <<83, 108, 97, 121, 101, 114>>,
       <<65, 115, 115, 97, 115, 115, 105, 110>>,
       <<77, 97, 115, 116, 101, 114>>,
       <<76, 111, 114, 100>>,
       <<75, 105, 110, 103>>,
       <<81, 117, 101, 101, 110>>,
       <<80, 114, 105, 110, 99, 101>>,
       <<76, 101, 103, 101, 110, 100>>,
       <<72, 101, 114, 111>>,
       <<78, 105, 110, 106, 97>>,
       <<83, 97, 109, 117, 114, 97, 105>> >>

\* str(n) for n >= 0
RECURSIVE Str(_)
Str(n) == IF n < 10 THEN <<48 + n>> ELSE Str(n \div 10) \o <<48 + (n % 10)>>

\* random.choice(first_parts) + random.choice(second_parts) + str(random.randint(1, 99)),
\* each choice drawn among the first MaxRandom values
RandomNames ==
    {first_parts[i] \o second_parts[j] \o Str(n) :
        i \in 1..Min(MaxRandom, Len(first_parts)),
        j \in 1..Min(MaxRandom, Len(second_parts)),
        n \in 1..Min(MaxRandom, 99)}

\* ------------------------------------------------------------ inputs
\* 'a', 'A', 's', 'Y', '0' of the canonical alphabet; '!', ' ' and an emoji outside it
CharSample == {97, 65, 115, 89, 48, 33, 32, 128520}

\* the texts fonts are applied to: every character of the canonical alphabet alone,
\* and every text over CharSample of at most MaxLen characters
Texts == SeqsUpTo(CharSample, MaxLen) \cup {<<c>> : c \in Range(NORMAL)}

\* the font identifiers with a mapping, and one without ('monospace' has no table)
FontIds == Range(FONT_NAMES) \cup {"small_caps", "monospace"}

\* the names styles are applied to: letters, and characters that templates are made of
StyleChars == {77, 97, 128520, 43457, 123}

Names == SeqsUpTo(StyleChars, MaxLen)

\* templates of the catalogs
CatalogTemplates == Range(DECORATIVE_STYLES) \cup {special_combos[i][2] : i \in 1..Len(special_combos)}

\* templates that break the one-placeholder rule: "꧁꧂", "{}{}", "{{}}", "꧁{", "{꧁}"
MalformedTemplates ==
    { <<43457, 43458>>, <<123, 125, 123, 125>>, <<123, 123, 125, 125>>,
      <<43457, 123>>, <<123, 43457, 125>> }

Templates == CatalogTemplates \cup MalformedTemplates

\* the number of '{}' fields of a template, read off its characters
RECURSIVE Placeholders(_, _)
Placeholders(t, i) ==
    IF i >= Len(t) THEN 0
    ELSE IF t[i] = 123 /\ t[i + 1] = 123 THEN Placeholders(t, i + 2)
    ELSE IF t[i] = 125 /\ t[i + 1] = 125 THEN Placeholders(t, i + 2)
    ELSE IF t[i] = 123 /\ t[i + 1] = 125 THEN 1 + Placeholders(t, i + 2)
    ELSE Placeholders(t, i + 1)

NoCall == [op |-> "none"]

\* ------------------------------------------------------------ SpecFont
\* the state of the classes before any handler object exists, and after
\* BotHandlers.__init__ has filled the translation tables
ClassState ==
    /\ TRANSLATION_TABLES \in {EmptyDict, FULL_TABLES}
    /\ storage = EmptyDict
    /\ user_data = EmptyDict

\* a caller is about to apply a font to any text, under any font identifier
FontInit ==
    /\ ClassState
    /\ \E text \in Texts, font_name \in FontIds :
           call = [op |-> "apply_font", text |-> text, font_name |-> font_name,
                   done |-> FALSE]

ApplyFont ==
    /\ call.op = "apply_font" /\ ~call.done
    /\ call' = [op |-> "apply_font", text |-> call.text, font_name |-> call.font_name,
                done |-> TRUE,
                ret |-> apply_font(TRANSLATION_TABLES, call.text, call.font_name)]
    /\ TRANSLATION_TABLES' = tables_after_call(TRANSLATION_TABLES)
    /\ UNCHANGED <<storage, user_data>>

FontNext == ApplyFont

SpecFont == FontInit /\ [][FontNext]_vars

\* ------------------------------------------------------------ claims on SpecFont
InAlphabet(text) == Range(text) \subseteq Range(NORMAL)

\* the font identifiers apply_font has a mapping for
MappedFonts == Range(FONT_NAMES) \cup {"small_caps"}

\* the target alphabet of a mapped font, and the map read backwards
FontTarget(font_name) == IF font_name = "small_caps" THEN small_caps_chars ELSE FONTS[font_name]

InverseMap(font_name) == maketrans(FontTarget(font_name), NORMAL)

\* the last call applied a mapped font to a text of the canonical alphabet
FontCallOn(fonts) ==
    /\ call.op = "apply_font" /\ call.done
    /\ call.font_name \in fonts
    /\ InAlphabet(call.text)

\* the result has the text's length and no other text of the alphabet has this result
SameLengthInjective ==
    /\ Len(call.ret) = Len(call.text)
    /\ \A other \in {t \in Texts : InAlphabet(t)} :
           apply_font(TRANSLATION_TABLES, other, call.font_name) = call.ret
               => other = call.text

\* C1 as stated: for every text of the canonical alphabet and every mapped font
\* (every FONTS entry and 'small_caps'), apply_font keeps the length, is injective,
\* and the inverse map applied to the result returns the text.
C1_BijectiveEveryFont ==
    FontCallOn(MappedFonts) =>
        /\ SameLengthInjective
        /\ translate(call.ret, InverseMap(call.font_name)) = call.text

\* C1 amended: the above holds for every FONTS entry; 'small_caps' keeps the length
\* and substitutes position by position, and its inverse returns the text in upper
\* case (both cases of a letter share one glyph).
C1_BijectiveFonts ==
    /\ FontCallOn(Range(FONT_NAMES)) =>
           /\ SameLengthInjective
           /\ translate(call.ret, InverseMap(call.font_name)) = call.text
    /\ FontCallOn({"small_caps"}) =>
           /\ Len(call.ret) = Len(call.text)
           /\ \A i \in 1..Len(call.text) : call.ret[i] = SMALL_CAPS_FONT[call.text[i]]
           /\ translate(call.ret, InverseMap("small_caps"))
                  = [i \in 1..Len(call.text) |-> Upper(call.text[i])]

C1_Witness ==
    /\ FontCallOn(Range(FONT_NAMES))
    /\ Len(call.text) >= 2
    /\ \A i \in 1..Len(call.text) : call.ret[i] # call.text[i]

\* C10: apply_font keeps the length, leaves every character outside the canonical
\* alphabet where it is, and substitutes each position as it would substitute that
\* character alone, for every font identifier.
C10_PassThrough ==
    call.op = "apply_font" /\ call.done =>
        /\ Len(call.ret) = Len(call.text)
        /\ \A i \in 1..Len(call.text) :
               /\ call.text[i] \notin Range(NORMAL) => call.ret[i] = call.text[i]
               /\ call.ret[i] = apply_font(TRANSLATION_TABLES, <<call.text[i]>>, call.font_name)[1]

C10_Witness ==
    /\ call.op = "apply_font" /\ call.done
    /\ \E i, j \in 1..Len(call.text) :
           /\ call.text[i] \notin Range(NORMAL)
           /\ call.text[j] \in Range(NORMAL)
           /\ call.ret[j] # call.text[j]

\* ------------------------------------------------------------ SpecStyle
\* the three places that render a name under a style, each about to be called on any
\* name and style: FontStyles.apply_style, BotHandlers._generate_styled_text and the
\* loop body of BotHandlers.generate_random_name
Request(op, text, kind, style) ==
    call = [op |-> op, text |-> text, kind |-> kind, style |-> style, done |-> FALSE]

StyleInit ==
    /\ ClassState
    /\ \/ \E text \in Names :
              \/ \E f \in FontIds \cup {""} : Request("apply_style", text, "font", f)
              \/ \E kind \in {"decorative", "art", "plain"}, t \in Templates \cup {<<>>} :
                     Request("apply_style", text, kind, t)
              \/ \E f \in FontIds, t \in Templates :
                     Request("apply_style", text, "mixed", <<f, t>>)
              \/ Request("apply_style", text, "mixed", <<>>)
       \/ \E name \in Names :
              \/ \E f \in FontIds : Request("generate_styled_text", name, "fonts", f)
              \/ \E category \in {"decorative", "art", ""}, t \in Templates :
                     Request("generate_styled_text", name, category, t)
              \/ \E f \in FontIds, t \in Templates :
                     Request("generate_styled_text", name, "mixed", <<f, t>>)
       \/ \E name \in RandomNames :
              \/ \E decor \in Range(DECORATIVE_STYLES) :
                     Request("random_styled_text", name, "decorative", decor)
              \/ \E font \in Range(FONT_NAMES) :
                     Request("random_styled_text", name, "fonts", font)
              \/ \E art \in Range(Take(DECORATIVE_STYLES, 20)) :
                     Request("random_styled_text", name, "art", art)
              \/ \E font \in Range(FONT_NAMES), decor \in Range(DECORATIVE_STYLES) :
                     Request("random_styled_text", name, "mixed", <<font, decor>>)

\* the call returns or raises: `out` is its outcome, `fonted` whether it ran apply_font
Rendered(out, fonted) ==
    /\ call' = [op |-> call.op, text |-> call.text, kind |-> call.kind,
                style |-> call.style, done |-> TRUE, out |-> out]
    /\ TRANSLATION_TABLES' =
           IF fonted THEN tables_after_call(TRANSLATION_TABLES) ELSE TRANSLATION_TABLES
    /\ UNCHANGED <<storage, user_data>>

ApplyStyle ==
    /\ call.op = "apply_style" /\ ~call.done
    /\ Rendered(apply_style(TRANSLATION_TABLES, call.text, call.kind, call.style),
                \/ call.kind = "font" /\ call.style # ""
                \/ call.kind = "mixed" /\ call.style # <<>>)

GenerateStyledText ==
    /\ call.op = "generate_styled_text" /\ ~call.done
    /\ Rendered(generate_styled_text(TRANSLATION_TABLES, call.text, call.kind, call.style),
                call.kind \in {"fonts", "mixed"})

RandomStyledText ==
    /\ call.op = "random_styled_text" /\ ~call.done
    /\ LET font == CASE call.kind = "fonts" -> call.style
                     [] call.kind = "mixed" -> call.style[1]
                     [] OTHER -> ""
           decor == CASE call.kind = "fonts" -> <<>>
                      [] call.kind = "mixed" -> call.style[2]
                      [] OTHER -> call.style
       IN  Rendered(random_styled_text(TRANSLATION_TABLES, call.text, call.kind, font, decor),
                    call.kind \in {"fonts", "mixed"})

StyleNext == ApplyStyle \/ GenerateStyledText \/ RandomStyledText

SpecStyle == StyleInit /\ [][StyleNext]_vars

\* ------------------------------------------------------------ claims on SpecStyle
\* the position of the placeholder of a template with one placeholder and no escapes
PlaceholderAt(t) == CHOOSE i \in 1..(Len(t) - 1) : t[i] = 123 /\ t[i + 1] = 125

Before(t) == SubSeq(t, 1, PlaceholderAt(t) - 1)

After(t) == SubSeq(t, PlaceholderAt(t) + 2, Len(t))

\* how many times s occurs in text as a contiguous substring
Occurrences(s, text) ==
    Cardinality({k \in 1..(Len(text) - Len(s) + 1) : SubSeq(text, k, k + Len(s) - 1) = s})

\* the last call rendered a non-empty name under a decorative or art template of the catalog
DecorativeCall ==
    /\ call.done
    /\ call.op \in {"apply_style", "generate_styled_text"}
    /\ call.kind \in {"decorative", "art"}
    /\ call.style \in Range(DECORATIVE_STYLES)
    /\ call.text # <<>>

\* C6 as stated: the rendered text is the template's text before the placeholder, the
\* name, and the template's text after it, and the name occurs in it exactly once.
C6_NameExactlyOnce ==
    DecorativeCall =>
        /\ ~call.out.raised
        /\ call.out.val = Before(call.style) \o call.text \o After(call.style)
        /\ Occurrences(call.text, call.out.val) = 1

\* C6 amended: the rendered text is before + name + after, so the name stands at the
\* placeholder's position; it occurs nowhere else when no character of the name occurs
\* in the template's text around the placeholder.
C6_NameAtPlaceholder ==
    DecorativeCall =>
        /\ ~call.out.raised
        /\ call.out.val = Before(call.style) \o call.text \o After(call.style)
        /\ SubSeq(call.out.val, PlaceholderAt(call.style),
                  PlaceholderAt(call.style) + Len(call.text) - 1) = call.text
        /\ Range(call.text) \cap Range(Before(call.style) \o After(call.style)) = {}
               => Occurrences(call.text, call.out.val) = 1

\* a name that holds a brace is substituted as it is
C6_Witness ==
    /\ DecorativeCall
    /\ Len(call.text) >= 2
    /\ 123 \in Range(call.text)
    /\ Occurrences(call.text, call.out.val) = 1

\* the last call rendered a name under a template, alone or after a font
TemplateOf(c) == IF c.kind = "mixed" THEN c.style[2] ELSE c.style

TemplateCall ==
    /\ call.done
    /\ call.text # <<>>
    /\ call.op \in {"apply_style", "generate_styled_text"}
    /\ \/ call.kind \in {"decorative", "art"}
       \/ call.kind = "mixed" /\ call.style # <<>>

\* C7: a template with no placeholder or with more than one either leaves the name
\* unchanged or raises.
C7_MalformedFailsClosed ==
    TemplateCall /\ Placeholders(TemplateOf(call), 1) # 1 =>
        call.out.raised \/ call.out.val = call.text

\* the last call rendered a name under a font identifier without a table, alone or
\* with a template of one placeholder
UnknownFontCall ==
    /\ call.done
    /\ call.text # <<>>
    /\ call.op \in {"apply_style", "generate_styled_text"}
    /\ \/ call.kind \in {"font", "fonts"} /\ call.style \notin MappedFonts \cup {""}
       \/ /\ call.kind = "mixed" /\ call.style # <<>>
          /\ call.style[1] \notin MappedFonts
          /\ Placeholders(call.style[2], 1) = 1

\* C8: an unknown font name either leaves the name unchanged or raises, in the font
\* kind and in the mixed kind.
C8_UnknownFontFailsClosed ==
    UnknownFontCall => call.out.raised \/ call.out.val = call.text

\* the last call rendered a name under Mixed{font, template}, the font mapped and the
\* template with one placeholder
MixedCall ==
    /\ call.done
    /\ call.kind = "mixed" /\ call.style # <<>>
    /\ call.style[1] \in MappedFonts
    /\ Placeholders(call.style[2], 1) = 1

\* C9: Mixed{font, template} renders as Decorative{template} does on the result of
\* Font{font}, in apply_style, in the listing and in random-name generation.
C9_MixedIsFontThenDecorative ==
    MixedCall =>
        call.out = apply_style(TRANSLATION_TABLES,
                               apply_style(TRANSLATION_TABLES, call.text, "font",
                                           call.style[1]).val,
                               "decorative", call.style[2])

\* Mixed{'bold', '꧁{}꧂'} on "Ma" in the listing: '꧁' + bold("Ma") + '꧂'
C9_Witness ==
    /\ MixedCall
    /\ call.op = "generate_styled_text"
    /\ call.text = <<77, 97>>
    /\ call.style = <<"bold", <<43457, 123, 125, 43458>> >>
    /\ call.out = Returned(<<43457, 120288, 120302, 43458>>)

\* the output of the rendering call of `call` when the cache of translation tables
\* is `tables`
OutputUnder(tables) ==
    CASE call.op = "apply_style" -> apply_style(tables, call.text, call.kind, call.style)
      [] call.op = "generate_styled_text" ->
             generate_styled_text(tables, call.text, call.kind, call.style)
      [] call.op = "random_styled_text" ->
             random_styled_text(tables, call.text, call.kind,
                                CASE call.kind = "fonts" -> call.style
                                  [] call.kind = "mixed" -> call.style[1]
                                  [] OTHER -> "",
                                CASE call.kind = "fonts" -> <<>>
                                  [] call.kind = "mixed" -> call.style[2]
                                  [] OTHER -> call.style)

\* a rendering call returns what it returns under any state of the cache
SameOutputEveryCall ==
    call'.done => /\ call'.out = OutputUnder(EmptyDict)
                  /\ call'.out = OutputUnder(FULL_TABLES)

\* a rendering call writes no global state: not the cache of translation tables, not
\* the registry, no session
NoGlobalStateWritten ==
    /\ TRANSLATION_TABLES' = TRANSLATION_TABLES
    /\ storage' = storage
    /\ user_data' = user_data

\* C16: rendering is pure: for every name and style it returns the same output on
\* every call, whether or not the translation tables were initialised before, and it
\* writes no global state; registry and sessions in particular stay unchanged.
C16_RenderingPure ==
    [][call.text # <<>> => SameOutputEveryCall /\ NoGlobalStateWritten]_vars

\* the name of the call violates the callers' precondition: empty, or longer than
\* MAX_NAME_LENGTH
NameOutOfContract ==
    \/ call.text = <<>>
    \/ Len(call.text) > MAX_NAME_LENGTH

\* a finished call of the style engine with a style of the catalog, in one of the four
\* families
CatalogCall ==
    /\ call.op \in {"apply_style", "generate_styled_text"}
    /\ call.done
    /\ \/ call.kind \in {"font", "fonts"} /\ call.style \in Range(FONT_NAMES)
       \/ call.kind \in {"decorative", "art"} /\ call.style \in Range(DECORATIVE_STYLES)
       \/ call.kind = "mixed" /\ call.style \in Range(MIXED_STYLES)

\* C17: reached with an empty or over-length name, the style engine does not raise
\* and returns the input unchanged, in each of the four style families.
C17_OutOfContractNameUnchanged ==
    CatalogCall /\ NameOutOfContract => call.out = Returned(call.text)

\* ------------------------------------------------------------ BotHandlers
\* str.strip(): leading and trailing whitespace removed, whitespace being the
\* characters of str.isspace()
IsSpace(c) ==
    c \in (9..13) \cup (28..32) \cup {133, 160, 5760} \cup (8192..8202)
           \cup {8232, 8233, 8239, 8287, 12288}

RECURSIVE LStrip(_)
LStrip(text) ==
    IF text # <<>> /\ IsSpace(text[1]) THEN LStrip(SubSeq(text, 2, Len(text))) ELSE text

RECURSIVE RStrip(_)
RStrip(text) ==
    IF text # <<>> /\ IsSpace(text[Len(text)])
    THEN RStrip(SubSeq(text, 1, Len(text) - 1)) ELSE text

Strip(text) == RStrip(LStrip(text))

\* a slice that takes one item more than s[start:end]
slice_one_more(s, start, end) == SubSeq(s, start + 1, Min(end + 1, Len(s)))

\* list[start:end] for 0 <= start <= end
Slice(s, start, end) == SubSeq(s, start + 1, Min(end, Len(s)))

\* process_name that keeps the message text as sent when its trimmed form is valid
process_name_untrimmed(ud, message_text) ==
    LET name == Strip(message_text)
    IN  IF Len(name) > MAX_NAME_LENGTH
        THEN [user_data |-> ud, reply |-> "too_long"]
        ELSE IF name = <<>>
        THEN [user_data |-> ud, reply |-> "invalid"]
        ELSE [user_data |-> Put(ud, "name", message_text), reply |-> "category_menu"]

\* process_name on the message text: the session after it and the reply
process_name(ud, message_text) ==
    LET name == Strip(message_text)
    IN  IF Len(name) > MAX_NAME_LENGTH
        THEN [user_data |-> ud, reply |-> "too_long"]
        ELSE IF name = <<>>
        THEN [user_data |-> ud, reply |-> "invalid"]
        ELSE [user_data |-> Put(ud, "name", name), reply |-> "category_menu"]

\* the label of the i-th button of a page
btn_text(i, styled_text) ==
    IF Len(styled_text) > 15
    THEN Str(i) \o <<46, 32>> \o Take(styled_text, 15) \o <<46, 46, 46>>
    ELSE Str(i) \o <<46, 32>> \o styled_text

\* the button loop of show_styles_page from the i-th style of the page on, `done`
\* holding the registry and the buttons so far: each style is rendered, the text stored
\* and a button appended; a render that raises ends the handler with the texts stored
\* so far
RECURSIVE page_buttons(_, _, _, _, _, _)
page_buttons(tables, done, name, category, page_styles, i) ==
    IF i > Len(page_styles) THEN done
    ELSE LET styled == generate_styled_text(tables, name, category, page_styles[i])
         IN  IF styled.raised
             THEN [storage |-> done.storage, buttons |-> <<>>, raised |-> TRUE]
             ELSE LET stored == store_text(done.storage, styled.val)
                  IN  page_buttons(tables,
                                   [storage |-> stored.storage,
                                    buttons |-> Append(done.buttons,
                                                       [text |-> btn_text(i, styled.val),
                                                        callback_data |-> stored.ret,
                                                        styled_text |-> styled.val]),
                                    raised |-> FALSE],
                                   name, category, page_styles, i + 1)

\* show_styles_page(update, context, page): the session and the registry after it, and
\* the message it shows (the start menu when the session holds no name)
show_styles_page(tables, ud, st, page) ==
    LET name == Get(ud, "name", <<>>)
        category == Get(ud, "current_category", "")
        styles == Get(ud, "current_styles", <<>>)
    IN  IF name = <<>>
        THEN [user_data |-> ud, storage |-> st, shown |-> [view |-> "start"]]
        ELSE LET ud2 == IF page # 0 THEN Put(ud, "current_page", page) ELSE ud
                 page2 == IF page # 0 THEN page ELSE Get(ud, "current_page", 1)
                 total == Len(styles)
                 total_pages == Max(1, (total + ITEMS_PER_PAGE - 1) \div ITEMS_PER_PAGE)
                 page3 == Max(1, Min(page2, total_pages))
                 start == (page3 - 1) * ITEMS_PER_PAGE
                 end == start + ITEMS_PER_PAGE
                 page_styles == Slice(styles, start, end)
                 loop == page_buttons(tables, [storage |-> st, buttons |-> <<>>, raised |-> FALSE],
                                     name, category, page_styles, 1)
             IN  [user_data |-> ud2, storage |-> loop.storage,
                  shown |-> IF loop.raised THEN [view |-> "raised"]
                            ELSE [view |-> "page", name |-> name, category |-> category,
                                  total |-> total, page |-> page3,
                                  total_pages |-> total_pages,
                                  buttons |-> loop.buttons,
                                  prev |-> IF page3 > 1 THEN {page3 - 1} ELSE {},
                                  next |-> IF page3 < total_pages THEN {page3 + 1} ELSE {}]]

\* category_map of show_category_styles
category_map(data) ==
    CASE data = "cat_decorative" -> [category |-> "decorative", styles |-> DECORATIVE_STYLES]
      [] data = "cat_fonts" -> [category |-> "fonts", styles |-> FONT_NAMES]
      [] data = "cat_art" -> [category |-> "art", styles |-> Take(DECORATIVE_STYLES, 20)]
      [] data = "cat_mixed" -> [category |-> "mixed", styles |-> Take(MIXED_STYLES, 20)]

CategoryData == {"cat_decorative", "cat_fonts", "cat_art", "cat_mixed"}

\* show_category_styles on callback data matching '^cat_'
show_category_styles(tables, ud, st, data) ==
    IF Get(ud, "name", <<>>) = <<>>
    THEN [user_data |-> ud, storage |-> st, shown |-> [view |-> "no_name"]]
    ELSE IF data \notin CategoryData
    THEN [user_data |-> ud, storage |-> st, shown |-> [view |-> "none"]]
    ELSE LET chosen == category_map(data)
             ud2 == Put(Put(Put(ud, "current_category", chosen.category),
                                "current_styles", chosen.styles),
                        "current_page", 1)
         IN  show_styles_page(tables, ud2, st, 1)

\* ------------------------------------------------------------ Spec: the bot
\* the message texts a user sends: " Ma " (valid once trimmed), blanks only, and a text
\* one character over the limit
Messages == { <<32, 77, 97, 32>>, <<32, 32>>, [i \in 1..(MAX_NAME_LENGTH + 1) |-> 97] }

\* the N of a page_N callback
PageArgs == ((0 - MaxPage)..MaxPage) \cup {99}

\* the texts other callers of TextStorage store: "", "ab" and "ba"
StoreTexts == { <<>>, <<97, 98>>, <<98, 97>> }

\* the fingerprints callers look up beside those of the buttons shown: those of
\* StoreTexts, and 1
ProbeHashes == {md5_hexdigest16(x) : x \in StoreTexts} \cup {1}

\* the fingerprints on the copy buttons of the messages shown last
ShownHashes ==
    IF call.op \in {"show_category_styles", "handle_pagination"} /\ call.shown.view = "page"
    THEN {call.shown.buttons[i].callback_data : i \in 1..Len(call.shown.buttons)}
    ELSE IF call.op = "generate_random_name"
    THEN {call.sent[i].callback_data : i \in 1..Len(call.sent)}
    ELSE {}

\* the state once initialize_bot has constructed BotHandlers
Init ==
    /\ TRANSLATION_TABLES = FULL_TABLES
    /\ storage = EmptyDict
    /\ user_data = EmptyDict
    /\ call = NoCall

ProcessName ==
    \E message_text \in Messages :
        \E r \in {process_name(user_data, message_text)} :
            /\ user_data' = r.user_data
            /\ call' = [op |-> "process_name", text |-> message_text, reply |-> r.reply]
            /\ UNCHANGED <<TRANSLATION_TABLES, storage>>

ShowCategoryStyles ==
    \E data \in CategoryData \cup {"cat_other"} :
        \E r \in {show_category_styles(TRANSLATION_TABLES, user_data, storage, data)} :
            /\ user_data' = r.user_data
            /\ storage' = r.storage
            /\ call' = [op |-> "show_category_styles", data |-> data, requested |-> 1,
                        shown |-> r.shown]
            /\ UNCHANGED TRANSLATION_TABLES

\* handle_pagination on callback data page_N
HandlePagination ==
    \E page \in PageArgs :
        \E r \in {show_styles_page(TRANSLATION_TABLES, user_data, storage, page)} :
            /\ user_data' = r.user_data
            /\ storage' = r.storage
            /\ call' = [op |-> "handle_pagination", requested |-> page, shown |-> r.shown]
            /\ UNCHANGED TRANSLATION_TABLES

\* f"```\n{text_to_copy}\n```": the text inside a code fence
code_block(text_to_copy) == <<96, 96, 96, 10>> \o text_to_copy \o <<10, 96, 96, 96>>

\* copy_text on callback data copy_<text_hash>
CopyText ==
    \E text_hash \in ShownHashes \cup ProbeHashes :
        \E text_to_copy \in {get_text(storage, text_hash)} :
            /\ call' = IF text_to_copy # <<>>
                       THEN [op |-> "copy_text", text_hash |-> text_hash, alert |-> "copied",
                             sent |-> <<code_block(text_to_copy)>>,
                             saved |-> << [original_text |-> Get(user_data, "name", <<>>),
                                           styled_text |-> text_to_copy,
                                           style_type |-> Get(user_data, "current_category", "")] >>]
                       ELSE [op |-> "copy_text", text_hash |-> text_hash,
                             alert |-> "not_found", sent |-> <<>>, saved |-> <<>>]
            /\ UNCHANGED <<TRANSLATION_TABLES, storage, user_data>>

\* TextStorage.store_text called by any caller
StoreText ==
    \E text \in StoreTexts :
        \E r \in {store_text(storage, text)} :
            /\ storage' = r.storage
            /\ call' = [op |-> "store_text", text |-> text, ret |-> r.ret,
                        had |-> text \in Range2(storage)]
            /\ UNCHANGED <<TRANSLATION_TABLES, user_data>>

\* TextStorage.get_text called by any caller
GetText ==
    \E text_hash \in ProbeHashes :
        /\ call' = [op |-> "get_text", text_hash |-> text_hash,
                    ret |-> get_text(storage, text_hash)]
        /\ UNCHANGED <<TRANSLATION_TABLES, storage, user_data>>

Next ==
    \/ ProcessName
    \/ ShowCategoryStyles
    \/ HandlePagination
    \/ CopyText
    \/ StoreText
    \/ GetText

Spec == Init /\ [][Next]_vars

\* ------------------------------------------------------------ claims on Spec
\* a lookup of a fingerprint the registry does not hold
MissingLookup ==
    /\ call.op = "get_text"
    /\ call.text_hash \notin DOMAIN storage

\* what get_text(store_text("")) returns on the registry `st`
LookupOfStoredEmpty(st) ==
    LET stored == store_text(st, <<>>)
    IN  get_text(stored.storage, stored.ret)

\* C2: get_text on a fingerprint that was never stored returns something other than
\* what get_text(store_text("")) returns, after any sequence of store_text calls.
C2_NotFoundDistinguishable ==
    MissingLookup => call.ret # LookupOfStoredEmpty(storage)

\* one step keeps every entry of the registry, and changes the text of an entry only
\* to a different text that has the same fingerprint
EntriesKept ==
    \A h \in DOMAIN storage :
        /\ h \in DOMAIN storage'
        /\ storage'[h] # storage[h] => md5_hexdigest16(storage'[h]) = h

\* a store_text step leaves its text under the fingerprint it returns
StoredUnderReturned ==
    call'.op = "store_text" => /\ call'.ret \in DOMAIN storage'
                               /\ storage'[call'.ret] = call'.text

\* a get_text or copy_text step on a fingerprint the registry holds returns exactly
\* the text held under it, and leaves the registry alone
LookupReturnsHeld ==
    /\ call'.op = "get_text" /\ call'.text_hash \in DOMAIN storage
           => call'.ret = storage[call'.text_hash] /\ storage' = storage
    /\ call'.op = "copy_text" /\ call'.text_hash \in DOMAIN storage
                              /\ storage[call'.text_hash] # <<>>
           => call'.sent = <<code_block(storage[call'.text_hash])>> /\ storage' = storage

\* C3: once store_text(x) has returned h, every later get_text(h) returns x whatever
\* renders, lookups, other stores and page changes happen in between, until a
\* different text with the fingerprint h is stored; no step removes an entry.
C3_RoundTripOverHistories ==
    [][EntriesKept /\ StoredUnderReturned /\ LookupReturnsHeld]_vars

\* get_text returns "ab", stored earlier, after a page of styles was rendered into
\* the registry and a page change was made
C3_Witness ==
    /\ call.op = "get_text"
    /\ call.ret = <<97, 98>>
    /\ "current_page" \in DOMAIN user_data
    /\ Cardinality(DOMAIN storage) >= 3

\* C4: store_text(x) returns the same fingerprint whatever the registry holds and
\* however often it is called, and a second store_text(x) leaves the registry as the
\* first one left it.
C4_StoreDeterministicIdempotent ==
    /\ \A x \in StoreTexts \cup Range2(storage) :
           LET first == store_text(storage, x)
               second == store_text(first.storage, x)
           IN  /\ second.ret = first.ret
               /\ second.storage = first.storage
               /\ first.ret = store_text(EmptyDict, x).ret
    /\ call.op = "store_text" =>
           /\ call.ret = store_text(EmptyDict, call.text).ret
           /\ call.had => storage[call.ret] = call.text

\* store_text("ba") called again on a registry that held "ba" and other entries
C4_Witness ==
    /\ call.op = "store_text"
    /\ call.text = <<98, 97>>
    /\ call.had
    /\ Cardinality(DOMAIN storage) >= 2

\* a request that displayed a page of styles
PageShown ==
    /\ call.op \in {"show_category_styles", "handle_pagination"}
    /\ call.shown.view = "page"

\* C5: a request for page p over n styles, T = max(1, ceil(n/10)) pages, displays
\* page 1 when p < 1, page T when p > T and page p otherwise, whatever page the
\* session held before.
C5_PageClamped ==
    PageShown =>
        LET T == Max(1, (call.shown.total + ITEMS_PER_PAGE - 1) \div ITEMS_PER_PAGE)
            p == call.requested
        IN  /\ call.shown.total_pages = T
            /\ call.shown.page = IF p < 1 THEN 1 ELSE IF p > T THEN T ELSE p

\* a copy action on a fingerprint the registry does not hold answers not-found, sends
\* and saves nothing and leaves registry and session as they were
AbsentCopyRefused ==
    call'.op = "copy_text" /\ call'.text_hash \notin DOMAIN storage =>
        /\ call'.alert = "not_found"
        /\ call'.sent = <<>>
        /\ call'.saved = <<>>
        /\ storage' = storage
        /\ user_data' = user_data

\* a copy action saves at most one record, and one exactly when its lookup found a
\* text: the record of that text
SavedOnlyOnSuccess ==
    call'.op = "copy_text" =>
        /\ Len(call'.saved) <= 1
        /\ call'.alert = "copied" <=> Len(call'.saved) = 1
        /\ Len(call'.saved) = 1 =>
               /\ call'.text_hash \in DOMAIN storage
               /\ call'.saved[1].styled_text = storage[call'.text_hash]
               /\ call'.sent = <<code_block(storage[call'.text_hash])>>

\* C14: a copy action on a fingerprint absent from the registry does not crash: the
\* user gets a not-found alert, no style record is saved, no text message is sent and
\* registry and session stay unchanged; a style record is saved only after a
\* successful lookup, exactly one per successful copy action.
C14_AbsentCopyIsNotFound ==
    [][AbsentCopyRefused /\ SavedOnlyOnSuccess]_vars

\* a copy action on a fingerprint no store produced, in a session that holds a name
\* and a non-empty registry
C14_Witness ==
    /\ call.op = "copy_text"
    /\ call.text_hash \notin DOMAIN storage
    /\ call.alert = "not_found"
    /\ "name" \in DOMAIN user_data
    /\ storage # EmptyDict

\* the prev and next tokens of the page shown name pages of the style list
NavigationInRange ==
    /\ call.shown.prev = IF call.shown.page > 1 THEN {call.shown.page - 1} ELSE {}
    /\ call.shown.next = IF call.shown.page < call.shown.total_pages
                         THEN {call.shown.page + 1} ELSE {}
    /\ call.shown.prev \cup call.shown.next \subseteq 1..call.shown.total_pages

\* C18: after every show_styles_page call the session's current_page is the page
\* that was displayed, hence between 1 and the page count of the session's style
\* list, and the prev/next tokens issued name pages in that range.
C18_StoredPageIsDisplayedPage ==
    PageShown =>
        /\ "current_page" \in DOMAIN user_data
        /\ user_data["current_page"] = call.shown.page
        /\ user_data["current_page"] \in 1..call.shown.total_pages
        /\ NavigationInRange

\* ------------------------------------------------------------ SpecCopy
\* categories of generate_random_name
categories == <<"decorative", "fonts", "art", "mixed">>

\* the k-th sampled outcome of the random choices of one iteration of
\* generate_random_name: the name parts and the number, the category, and the font
\* and decoration the category's branch chooses (k = 1: mixed, 2: decorative, 3: fonts,
\* 4: art)
SampleDraw(k) ==
    [name |-> first_parts[((k - 1) % Len(first_parts)) + 1]
              \o second_parts[((k - 1) % Len(second_parts)) + 1]
              \o Str(((k - 1) % 99) + 1),
     category |-> categories[((k + 2) % Len(categories)) + 1],
     font |-> FONT_NAMES[((k - 1) % Len(FONT_NAMES)) + 1],
     decor |-> DECORATIVE_STYLES[((k - 1) % Len(DECORATIVE_STYLES)) + 1]]

\* the outcomes an iteration draws from: ShadowKiller1 in mixed{bold, first
\* decoration} and DarkHunter2 in the second decoration
RandomDraws == {SampleDraw(1), SampleDraw(2)}

\* the loop of generate_random_name from iteration i on, draws[i] the outcome of the
\* random choices of iteration i: the text is rendered and stored, and a message with
\* its copy button is sent; a render that raises ends the handler with the messages
\* sent so far
RECURSIVE generate_random_name(_, _, _, _)
generate_random_name(tables, done, draws, i) ==
    IF i > Len(draws) THEN done
    ELSE LET styled == random_styled_text(tables, draws[i].name, draws[i].category,
                                          draws[i].font, draws[i].decor)
         IN  IF styled.raised
             THEN [storage |-> done.storage, sent |-> done.sent, raised |-> TRUE]
             ELSE LET stored == store_text(done.storage, styled.val)
                  IN  generate_random_name(tables,
                                           [storage |-> stored.storage,
                                            sent |-> Append(done.sent,
                                                            [styled_text |-> styled.val,
                                                             callback_data |-> stored.ret]),
                                            raised |-> FALSE],
                                           draws, i + 1)

\* the message text a user sends in this specification: "ShadowKiller12"
CopyMessages == { first_parts[1] \o second_parts[1] \o Str(12) }

\* process_name on a message text of `texts`
ProcessNameFrom(texts) ==
    \E message_text \in texts :
        \E r \in {process_name(user_data, message_text)} :
            /\ user_data' = r.user_data
            /\ call' = [op |-> "process_name", text |-> message_text, reply |-> r.reply]
            /\ UNCHANGED <<TRANSLATION_TABLES, storage>>

CopyProcessName == ProcessNameFrom(CopyMessages)

\* generate_random_name on callback data random_name: five iterations
GenerateRandomName ==
    \E draws \in [1..5 -> RandomDraws] :
        \E r \in {generate_random_name(TRANSLATION_TABLES,
                                       [storage |-> storage, sent |-> <<>>, raised |-> FALSE],
                                       draws, 1)} :
            /\ storage' = r.storage
            /\ call' = [op |-> "generate_random_name", sent |-> r.sent, raised |-> r.raised]
            /\ UNCHANGED <<TRANSLATION_TABLES, user_data>>

CopyNext ==
    \/ CopyProcessName
    \/ ShowCategoryStyles
    \/ HandlePagination
    \/ GenerateRandomName
    \/ CopyText

SpecCopy == Init /\ [][CopyNext]_vars

\* ------------------------------------------------------------ claims on SpecCopy
\* the copy buttons of the messages sent by the last listing or random-name request,
\* in the order their texts were stored
ButtonsSent ==
    IF call.op \in {"show_category_styles", "handle_pagination"} /\ call.shown.view = "page"
    THEN [i \in 1..Len(call.shown.buttons) |->
             [styled_text |-> call.shown.buttons[i].styled_text,
              callback_data |-> call.shown.buttons[i].callback_data]]
    ELSE IF call.op = "generate_random_name" THEN call.sent
    ELSE <<>>

\* a later button of the same request stored a different text under the token of
\* button i
CollidedSince(buttons, i) ==
    \E j \in (i + 1)..Len(buttons) :
        /\ buttons[j].callback_data = buttons[i].callback_data
        /\ buttons[j].styled_text # buttons[i].styled_text

\* every token on a button sent is in the registry, under it the full text rendered
\* for that button
TokensStored ==
    \A i \in 1..Len(ButtonsSent) :
        /\ ButtonsSent[i].callback_data \in DOMAIN storage
        /\ ~CollidedSince(ButtonsSent, i) =>
               storage[ButtonsSent[i].callback_data] = ButtonsSent[i].styled_text

\* pressing a button just sent sends the full text rendered for it
PressDelivers ==
    call'.op = "copy_text" =>
        \A i \in 1..Len(ButtonsSent) :
            call'.text_hash = ButtonsSent[i].callback_data /\ ~CollidedSince(ButtonsSent, i)
                => /\ call'.alert = "copied"
                   /\ call'.sent = <<code_block(ButtonsSent[i].styled_text)>>

\* C13: every copy token that show_styles_page or generate_random_name puts on a
\* button is stored in the registry before the button is sent, and pressing the
\* button, no colliding store since, sends exactly the full text rendered for that
\* button: not the label cut to 15 characters, not the text of another button.
C13_CopyDeliversExactText ==
    []TokensStored /\ [][PressDelivers]_vars

\* the button of the first decorative style of "ShadowKiller12" was pressed: its label
\* is cut to 15 characters, the message sent holds all 16
C13_Witness ==
    /\ call.op = "copy_text"
    /\ call.alert = "copied"
    /\ Get(user_data, "current_category", "") = "decorative"
    /\ call.sent = << code_block(<<43457>> \o first_parts[1] \o second_parts[1]
                                 \o <<49, 50, 43458>>) >>
    /\ Len(call.sent[1]) = 16 + 8

\* ------------------------------------------------------------ SpecName
\* "M" and a blank followed by a's, n characters in all
NameOfLength(n) == <<77, 32>> \o [i \in 1..(n - 2) |-> 97]

\* the message texts a user sends: the empty text, blanks only, a name of exactly
\* MAX_NAME_LENGTH characters between a tab and a no-break space before and a blank
\* and a newline after, and a name one character longer between blanks
NameMessages ==
    { <<>>,
      <<32, 9, 10>>,
      <<9, 160>> \o NameOfLength(MAX_NAME_LENGTH) \o <<32, 10>>,
      <<32>> \o NameOfLength(MAX_NAME_LENGTH + 1) \o <<32>> }

NameProcessName == ProcessNameFrom(NameMessages)

\* handle_pagination on callback data page_N, N in `pages`
HandlePaginationOf(pages) ==
    \E page \in pages :
        \E r \in {show_styles_page(TRANSLATION_TABLES, user_data, storage, page)} :
            /\ user_data' = r.user_data
            /\ storage' = r.storage
            /\ call' = [op |-> "handle_pagination", requested |-> page, shown |-> r.shown]
            /\ UNCHANGED TRANSLATION_TABLES

NameHandlePagination == HandlePaginationOf({2})

NameNext ==
    \/ NameProcessName
    \/ ShowCategoryStyles
    \/ NameHandlePagination

SpecName == Init /\ [][NameNext]_vars

\* ------------------------------------------------------------ claims on SpecName
\* a text without whitespace at either end, 1 to MAX_NAME_LENGTH characters long
ValidName(name) ==
    /\ Len(name) \in 1..MAX_NAME_LENGTH
    /\ ~IsSpace(name[1])
    /\ ~IsSpace(name[Len(name)])

\* the text between the first and the last character of `text` that is not whitespace
Trimmed(text) ==
    LET kept == {i \in 1..Len(text) : ~IsSpace(text[i])}
    IN  IF kept = {} THEN <<>>
        ELSE SubSeq(text, CHOOSE i \in kept : \A j \in kept : i <= j,
                          CHOOSE i \in kept : \A j \in kept : i >= j)

\* a process_name step writes the name only for a valid trimmed text, and then exactly
\* that text; otherwise it replies with an error and leaves the session as it was
NameWrittenOnlyWhenValid ==
    call'.op = "process_name" =>
        LET name == Trimmed(call'.text)
        IN  IF Len(name) \in 1..MAX_NAME_LENGTH
            THEN /\ call'.reply = "category_menu"
                 /\ user_data' = Put(user_data, "name", name)
            ELSE /\ call'.reply \in {"too_long", "invalid"}
                 /\ user_data' = user_data

\* a step of a session without a name renders and stores nothing
NothingRenderedWithoutName ==
    Get(user_data, "name", <<>>) = <<>> /\ call'.op # "process_name" =>
        /\ storage' = storage
        /\ call'.shown.view \in {"start", "no_name"}

\* a name in the session is trimmed and 1 to 30 characters long, and a page shown
\* was rendered for that name
SessionNameValid ==
    /\ "name" \in DOMAIN user_data => ValidName(user_data["name"])
    /\ call.op \in {"show_category_styles", "handle_pagination"}
           /\ call.shown.view = "page"
           => call.shown.name # <<>> /\ call.shown.name = user_data["name"]

\* C15: process_name writes the session's name only when the trimmed message text has
\* 1 to 30 characters, and then exactly the trimmed text; an empty or over-length text
\* gets an error reply and leaves name, category, style list and page unchanged.
\* Hence a name present in the session is always trimmed and 1..30 characters long,
\* and no style is rendered or stored for an empty name.
C15_NameValidated ==
    []SessionNameValid /\ [][NameWrittenOnlyWhenValid /\ NothingRenderedWithoutName]_vars

\* the over-length text was refused in a session that holds the 30-character name, a
\* category, a style list and a page
C15_Witness ==
    /\ call.op = "process_name"
    /\ call.reply = "too_long"
    /\ Len(Get(user_data, "name", <<>>)) = MAX_NAME_LENGTH
    /\ {"current_category", "current_styles", "current_page"} \subseteq DOMAIN user_data

\* ------------------------------------------------------------ SpecSession
\* Two updates of one user processed at once: webhook starts a thread per update and
\* the handlers of both work on the same context.user_data. A thread's step is one
\* read or one write of the session, or the rendering of the page from the values it
\* has read; `call` holds each thread's position and the values it has read.

\* the family of the styles in a list of the catalog: font names (FONTS.keys()),
\* templates (DECORATIVE_STYLES) or (font, template) pairs (MIXED_STYLES); the three
\* lists differ in length
FamilyOf(styles) ==
    CASE Len(styles) = 0 -> "none"
      [] Len(styles) = Len(FONT_NAMES) -> "names"
      [] Len(styles) = Len(DECORATIVE_STYLES) -> "templates"
      [] OTHER -> "pairs"

\* the family of styles _generate_styled_text expects under a category
FamilyFor(category) ==
    CASE category = "fonts" -> "names"
      [] category \in {"decorative", "art"} -> "templates"
      [] category = "mixed" -> "pairs"
      [] OTHER -> "none"

\* the characters of a font name of FONTS
FontNameText(font_name) ==
    IF font_name = "bold" THEN <<98, 111, 108, 100>> ELSE <<105, 116, 97, 108, 105, 99>>

\* _generate_styled_text on a style of the family `family`:
\*   'fonts' with a template or a pair: apply_font finds no table and returns the name;
\*   'decorative' or 'art' with a font name: the font name is the template;
\*   'decorative' or 'art' with a pair: a tuple has no format (AttributeError);
\*   'mixed' with a font name or a template: a string of more than two characters
\*   does not unpack into (font_name, decor) (ValueError);
\*   no category: the name
generate_styled_text_of(tables, name, category, family, style) ==
    IF family = FamilyFor(category) THEN generate_styled_text(tables, name, category, style)
    ELSE IF category = "fonts" THEN Returned(name)
    ELSE IF category \in {"decorative", "art"}
    THEN IF family = "names" THEN format(FontNameText(style), name)
         ELSE Raised("AttributeError")
    ELSE IF category = "mixed" THEN Raised("ValueError")
    ELSE Returned(name)

\* the button loop of show_styles_page over page_styles of the family `family`: the
\* registry after it and whether a render raised
RECURSIVE render_page(_, _, _, _, _, _, _)
render_page(tables, st, name, category, family, page_styles, i) ==
    IF i > Len(page_styles) THEN [storage |-> st, raised |-> FALSE]
    ELSE LET styled == generate_styled_text_of(tables, name, category, family,
                                               page_styles[i])
         IN  IF styled.raised THEN [storage |-> st, raised |-> TRUE]
             ELSE render_page(tables, store_text(st, styled.val).storage, name, category,
                              family, page_styles, i + 1)

SessionThreads == 1..2

\* the categories the two updates select among
SessionData == {"cat_decorative", "cat_mixed"}

IdleUpdate ==
    [op |-> "none", pc |-> "idle", data |-> "", page |-> 1, name |-> <<>>,
     category |-> "", styles |-> <<>>, view |-> ""]

SessionInit ==
    /\ TRANSLATION_TABLES = FULL_TABLES
    /\ storage = EmptyDict
    /\ user_data = EmptyDict
    /\ call = [threads |-> [t \in SessionThreads |-> IdleUpdate]]

\* thread t moves to the position `next`
UpdateMoves(t, next) == call' = [threads |-> [call.threads EXCEPT ![t] = next]]

\* process_name on " Ma ": context.user_data['name'] = name
UpdateProcessName(t) ==
    /\ call.threads[t].pc = "idle"
    /\ \E r \in {process_name(user_data, <<32, 77, 97, 32>>)} :
           /\ user_data' = r.user_data
           /\ UpdateMoves(t, [IdleUpdate EXCEPT !.op = "process_name", !.pc = "done"])
    /\ UNCHANGED <<TRANSLATION_TABLES, storage>>

\* show_category_styles: name = context.user_data.get('name', ''), and the return
\* when there is none
SelectBegin(t) ==
    /\ call.threads[t].pc = "idle"
    /\ \E data \in SessionData :
           UpdateMoves(t, [IdleUpdate EXCEPT
                              !.op = "show_category_styles", !.data = data,
                              !.name = Get(user_data, "name", <<>>),
                              !.pc = IF Get(user_data, "name", <<>>) = <<>>
                                     THEN "done" ELSE "set_category",
                              !.view = IF Get(user_data, "name", <<>>) = <<>>
                                       THEN "no_name" ELSE ""])
    /\ UNCHANGED <<TRANSLATION_TABLES, storage, user_data>>

\* context.user_data['current_category'] = category
SelectSetCategory(t) ==
    /\ call.threads[t].pc = "set_category"
    /\ user_data' = Put(user_data, "current_category",
                        category_map(call.threads[t].data).category)
    /\ UpdateMoves(t, [call.threads[t] EXCEPT !.pc = "set_styles"])
    /\ UNCHANGED <<TRANSLATION_TABLES, storage>>

\* context.user_data['current_styles'] = styles
SelectSetStyles(t) ==
    /\ call.threads[t].pc = "set_styles"
    /\ user_data' = Put(user_data, "current_styles", category_map(call.threads[t].data).styles)
    /\ UpdateMoves(t, [call.threads[t] EXCEPT !.pc = "set_page"])
    /\ UNCHANGED <<TRANSLATION_TABLES, storage>>

\* context.user_data['current_page'] = 1, and the call of show_styles_page
SelectSetPage(t) ==
    /\ call.threads[t].pc = "set_page"
    /\ user_data' = Put(user_data, "current_page", 1)
    /\ UpdateMoves(t, [call.threads[t] EXCEPT !.pc = "get_name", !.page = 1])
    /\ UNCHANGED <<TRANSLATION_TABLES, storage>>

\* handle_pagination on page_1: the call of show_styles_page
PaginationBegin(t) ==
    /\ call.threads[t].pc = "idle"
    /\ \E page \in {1} :
           UpdateMoves(t, [IdleUpdate EXCEPT !.op = "handle_pagination",
                                            !.pc = "get_name", !.page = page])
    /\ UNCHANGED <<TRANSLATION_TABLES, storage, user_data>>

\* show_styles_page: name = context.user_data.get('name', '')
PageGetName(t) ==
    /\ call.threads[t].pc = "get_name"
    /\ UpdateMoves(t, [call.threads[t] EXCEPT !.pc = "get_category",
                                             !.name = Get(user_data, "name", <<>>)])
    /\ UNCHANGED <<TRANSLATION_TABLES, storage, user_data>>

\* category = context.user_data.get('current_category', '')
PageGetCategory(t) ==
    /\ call.threads[t].pc = "get_category"
    /\ UpdateMoves(t, [call.threads[t] EXCEPT
                           !.pc = "get_styles",
                           !.category = Get(user_data, "current_category", "")])
    /\ UNCHANGED <<TRANSLATION_TABLES, storage, user_data>>

\* styles = context.user_data.get('current_styles', []), and the return to the start
\* menu when there is no name
PageGetStyles(t) ==
    /\ call.threads[t].pc = "get_styles"
    /\ UpdateMoves(t, [call.threads[t] EXCEPT
                           !.pc = IF call.threads[t].name = <<>> THEN "done" ELSE "page",
                           !.view = IF call.threads[t].name = <<>> THEN "start" ELSE "",
                           !.styles = Get(user_data, "current_styles", <<>>)])
    /\ UNCHANGED <<TRANSLATION_TABLES, storage, user_data>>

\* context.user_data['current_page'] = page (the page given is 1, not falsy)
PageSetPage(t) ==
    /\ call.threads[t].pc = "page"
    /\ user_data' = Put(user_data, "current_page", call.threads[t].page)
    /\ UpdateMoves(t, [call.threads[t] EXCEPT !.pc = "render"])
    /\ UNCHANGED <<TRANSLATION_TABLES, storage>>

\* the page is clamped and sliced, and its styles rendered, stored and shown
PageRender(t) ==
    /\ call.threads[t].pc = "render"
    /\ LET self == call.threads[t]
           total == Len(self.styles)
           total_pages == Max(1, (total + ITEMS_PER_PAGE - 1) \div ITEMS_PER_PAGE)
           page == Max(1, Min(self.page, total_pages))
           start == (page - 1) * ITEMS_PER_PAGE
           page_styles == Slice(self.styles, start, start + ITEMS_PER_PAGE)
       IN  \E r \in {render_page(TRANSLATION_TABLES, storage, self.name, self.category,
                                  FamilyOf(self.styles), page_styles, 1)} :
               /\ storage' = r.storage
               /\ UpdateMoves(t, [self EXCEPT !.pc = "done", !.page = page,
                                             !.view = IF r.raised THEN "raised" ELSE "page"])
    /\ UNCHANGED <<TRANSLATION_TABLES, user_data>>

\* the update is processed and the thread ends; the next update gets a new thread
UpdateDone(t) ==
    /\ call.threads[t].pc = "done"
    /\ UpdateMoves(t, IdleUpdate)
    /\ UNCHANGED <<TRANSLATION_TABLES, storage, user_data>>

SessionNext ==
    \E t \in SessionThreads :
        \/ UpdateProcessName(t)
        \/ SelectBegin(t)
        \/ SelectSetCategory(t)
        \/ SelectSetStyles(t)
        \/ SelectSetPage(t)
        \/ PaginationBegin(t)
        \/ PageGetName(t)
        \/ PageGetCategory(t)
        \/ PageGetStyles(t)
        \/ PageSetPage(t)
        \/ PageRender(t)
        \/ UpdateDone(t)

SpecSession == SessionInit /\ [][SessionNext]_vars

\* ------------------------------------------------------------ claims on SpecSession
\* C19: show_styles_page renders with a category and a style list written by one and
\* the same category selection, the page being 1 after a selection, also when two
\* updates of one user are processed at once; no interleaving makes
\* _generate_styled_text apply a category to a style of another family, or raise.
C19_CategoryAndStylesAgree ==
    \A t \in SessionThreads :
        call.threads[t].pc = "done" /\ call.threads[t].view \in {"page", "raised"} =>
            /\ call.threads[t].view = "page"
            /\ FamilyOf(call.threads[t].styles) = FamilyFor(call.threads[t].category)
            /\ call.threads[t].op = "show_category_styles" => call.threads[t].page = 1

\* ------------------------------------------------------------ SpecAdmin
\* ADMIN_IDS = [5487394544]; a user id is written in decimal digits
ADMIN_IDS == {"5487394544"}

\* the users who send updates: the admin and two others
UserIds == ADMIN_IDS \cup {"1001", "1002"}

\* the rows of the users table, as Database.get_all_users returns them
UserTables == { <<>>, <<"1001">>, <<"5487394544", "1001">>, <<"1001", "1002", "5487394544">> }

\* the message a /broadcast carries: none, the text of the message replied to, a
\* replied-to message without text or caption, or the command's arguments
BroadcastSources == {"none", "reply", "reply_no_text", "args"}

\* the sets of users to whom send_message raises
FailingSets == SUBSET {"1001", "1002"}

\* a broadcast loop that gives up at the first send that fails
RECURSIVE broadcast_loop_gives_up(_, _, _, _)
broadcast_loop_gives_up(users, failing, i, done) ==
    IF i > Len(users) THEN done
    ELSE IF users[i] \in failing
    THEN [attempts |-> Append(done.attempts, users[i]), success |-> done.success,
          failed |-> done.failed + 1]
    ELSE broadcast_loop_gives_up(users, failing, i + 1,
                                 [attempts |-> Append(done.attempts, users[i]),
                                  success |-> done.success + 1, failed |-> done.failed])

\* the loop of broadcast_command from the i-th user on: send_message is attempted,
\* success is counted when it returns and failed when it raises
RECURSIVE broadcast_loop(_, _, _, _)
broadcast_loop(users, failing, i, done) ==
    IF i > Len(users) THEN done
    ELSE broadcast_loop(users, failing, i + 1,
                        [attempts |-> Append(done.attempts, users[i]),
                         success |-> IF users[i] \in failing THEN done.success
                                     ELSE done.success + 1,
                         failed |-> IF users[i] \in failing THEN done.failed + 1
                                    ELSE done.failed])

\* the handlers initialize_bot registers for commands and for callback data
AdminRequests ==
    {"/admin", "/stats", "/broadcast", "admin_stats", "admin_broadcast", "admin_users"}

\* an update of user `user` is about to be handled
AdminInit ==
    /\ TRANSLATION_TABLES = FULL_TABLES
    /\ storage = EmptyDict
    /\ user_data = EmptyDict
    /\ \E request \in AdminRequests, user \in UserIds, users \in UserTables,
          source \in BroadcastSources, failing \in FailingSets :
           call = [op |-> request, user |-> user, users |-> users, source |-> source,
                   failing |-> failing, done |-> FALSE]

\* the handler of `call` ends having sent `reply` to the user, shown the data `shown`
\* and broadcast to the chats `sent_to`
Handled(reply, shown, sent_to) ==
    /\ call' = [op |-> call.op, user |-> call.user, users |-> call.users,
                source |-> call.source, failing |-> call.failing, done |-> TRUE,
                reply |-> reply, shown |-> shown, sent_to |-> sent_to]
    /\ UNCHANGED <<TRANSLATION_TABLES, storage, user_data>>

\* BotHandlers.admin_command
AdminCommand ==
    /\ call.op = "/admin" /\ ~call.done
    /\ IF call.user \notin ADMIN_IDS
       THEN Handled("access_denied", <<>>, <<>>)
       ELSE Handled("admin_menu", <<>>, <<>>)

\* stats_command
StatsCommand ==
    /\ call.op = "/stats" /\ ~call.done
    /\ IF call.user \notin ADMIN_IDS
       THEN Handled("access_denied", <<>>, <<>>)
       ELSE Handled("statistics", <<Len(call.users)>>, <<>>)

\* broadcast_command; the final report shows success, failed and total
BroadcastCommand ==
    /\ call.op = "/broadcast" /\ ~call.done
    /\ IF call.user \notin ADMIN_IDS
       THEN Handled("access_denied", <<>>, <<>>)
       ELSE IF call.source = "reply_no_text"
       THEN Handled("no_text", <<>>, <<>>)
       ELSE IF call.source = "none"
       THEN Handled("usage", <<>>, <<>>)
       ELSE IF Len(call.users) = 0
       THEN Handled("no_users", <<>>, <<>>)
       ELSE \E r \in {broadcast_loop(call.users, call.failing, 1,
                                     [attempts |-> <<>>, success |-> 0, failed |-> 0])} :
                Handled("broadcast_complete", <<r.success, r.failed, Len(call.users)>>,
                        r.attempts)

\* BotHandlers.admin_stats
AdminStats ==
    /\ call.op = "admin_stats" /\ ~call.done
    /\ Handled("admin_stats", <<Len(call.users)>>, <<>>)

\* BotHandlers.admin_broadcast
AdminBroadcast ==
    /\ call.op = "admin_broadcast" /\ ~call.done
    /\ Handled("broadcast_menu", <<>>, <<>>)

\* BotHandlers.admin_users
AdminUsers ==
    /\ call.op = "admin_users" /\ ~call.done
    /\ IF Len(call.users) = 0
       THEN Handled("no_users", <<>>, <<>>)
       ELSE Handled("user_list", Take(call.users, 10), <<>>)

AdminNext ==
    \/ AdminCommand
    \/ StatsCommand
    \/ BroadcastCommand
    \/ AdminStats
    \/ AdminBroadcast
    \/ AdminUsers

SpecAdmin == AdminInit /\ [][AdminNext]_vars

\* ------------------------------------------------------------ claims on SpecAdmin
\* C20: a user whose id is not in ADMIN_IDS never causes a broadcast and never gets
\* the admin menu, the admin statistics or the user-id list, by /admin, /stats,
\* /broadcast or by the callbacks admin_stats, admin_broadcast, admin_users: every
\* such attempt ends in an access-denied reply and has no other effect.
C20_AdminOnly ==
    call.done /\ call.user \notin ADMIN_IDS =>
        /\ call.reply = "access_denied"
        /\ call.shown = <<>>
        /\ call.sent_to = <<>>

\* ------------------------------------------------------------ SpecWebhook
\* the bodies POSTed to /webhook: no JSON at all, the empty body, the JSON values
\* null and [1], an object without update_id and an update
Bodies == {"not json", "", "null", "[1]", "{}", "{\"update_id\": 7}"}

\* request.get_json(force=True): the parsed value, or BadRequest for a body that is
\* not JSON
get_json(body) ==
    CASE body \in {"not json", ""} -> Raised("BadRequest")
      [] body = "null" -> Returned([type |-> "NoneType"])
      [] body = "[1]" -> Returned([type |-> "list"])
      [] body = "{}" -> Returned([type |-> "dict", update_id |-> "unknown"])
      [] body = "{\"update_id\": 7}" -> Returned([type |-> "dict", update_id |-> "7"])

\* a webhook that answers OK to every body and always starts a processing
webhook_always_ok(body) ==
    [status |-> 200, text |-> "OK", started |-> <<[update_data |-> body, pc |-> "started"]>>]

\* webhook(): the response, and the thread it has started. update_data.get raises
\* AttributeError on a parsed value that is not a dict; every exception of the
\* handler is caught and answered with 'ERROR', 500
webhook(body) ==
    LET update_data == get_json(body)
    IN  IF update_data.raised \/ update_data.val.type # "dict"
        THEN [status |-> 500, text |-> "ERROR", started |-> <<>>]
        ELSE [status |-> 200, text |-> "OK",
              started |-> <<[update_data |-> body, pc |-> "started"]>>]

\* `call` holds the bot (None until initialize_bot has built the application), the
\* responses returned so far and the background threads started so far
WebhookInit ==
    /\ TRANSLATION_TABLES = FULL_TABLES
    /\ storage = EmptyDict
    /\ user_data = EmptyDict
    /\ \E bot \in {"None", "Application"} :
           call = [bot_application |-> bot, responses |-> <<>>, threads |-> <<>>]

\* a POST to /webhook is handled
Webhook ==
    /\ Len(call.responses) < MaxRequests
    /\ \E body \in Bodies :
           \E r \in {webhook(body)} :
               call' = [call EXCEPT
                           !.responses = Append(@, [body |-> body, status |-> r.status,
                                                    text |-> r.text]),
                           !.threads = @ \o r.started]
    /\ UNCHANGED <<TRANSLATION_TABLES, storage, user_data>>

\* process_in_background of thread i: the update is processed, or an exception is
\* caught and logged: always when bot_application is None or the object is no
\* update, possibly when a handler raises
ProcessInBackground ==
    /\ \E i \in 1..Len(call.threads) :
           /\ call.threads[i].pc = "started"
           /\ \E outcome \in
                  IF call.bot_application = "None" \/ call.threads[i].update_data = "{}"
                  THEN {"logged"} ELSE {"processed", "logged"} :
                  call' = [call EXCEPT !.threads[i].pc = outcome]
    /\ UNCHANGED <<TRANSLATION_TABLES, storage, user_data>>

WebhookNext == Webhook \/ ProcessInBackground

SpecWebhook == WebhookInit /\ [][WebhookNext]_vars

\* ------------------------------------------------------------ claims on SpecWebhook
\* the response just returned, and the threads just started
NewResponse == call'.responses[Len(call'.responses)]

NewThreads == SubSeq(call'.threads, Len(call.threads) + 1, Len(call'.threads))

Responded == Len(call'.responses) = Len(call.responses) + 1

\* the request is answered 200 'OK' and exactly one processing is started, which has
\* not run yet when the response is returned
AnsweredOkAndStarted ==
    /\ NewResponse.status = 200 /\ NewResponse.text = "OK"
    /\ Len(NewThreads) = 1
    /\ NewThreads[1] = [update_data |-> NewResponse.body, pc |-> "started"]

\* the request is answered 500 'ERROR' and no processing is started
AnsweredError ==
    /\ NewResponse.status = 500 /\ NewResponse.text = "ERROR"
    /\ NewThreads = <<>>

\* a step of a background thread leaves every response as it was returned, ends in
\* the update processed or the exception logged, and leaves the other threads alone
BackgroundContained ==
    ~Responded =>
        /\ call'.responses = call.responses
        /\ Len(call'.threads) = Len(call.threads)
        /\ \A i \in 1..Len(call.threads) :
               call'.threads[i] # call.threads[i] =>
                   /\ call.threads[i].pc = "started"
                   /\ call'.threads[i].pc \in {"processed", "logged"}
                   /\ call.bot_application = "None" => call'.threads[i].pc = "logged"

\* a response returned is never changed later
ResponsesKept == SubSeq(call'.responses, 1, Len(call.responses)) = call.responses

\* C21 as stated: every POST whose body is parseable JSON is answered 200 'OK' at once
\* and starts exactly one background processing; an exception while processing is
\* caught and logged in the thread and changes no response; a body that cannot be
\* parsed is answered 500 'ERROR' and starts no processing.
C21_EveryJsonAnswered200 ==
    [][/\ Responded => IF get_json(NewResponse.body).raised
                        THEN AnsweredError ELSE AnsweredOkAndStarted
       /\ BackgroundContained
       /\ ResponsesKept]_vars

\* C21 amended: every POST whose body parses to a JSON object is answered 200 'OK' at
\* once and starts exactly one background processing; a body that cannot be parsed,
\* or parses to a value that is not an object, is answered 500 'ERROR' and starts no
\* processing; an exception while processing is caught and logged in the thread and
\* changes no response.
C21_JsonObjectAnswered200 ==
    [][/\ Responded =>
              IF get_json(NewResponse.body).raised THEN AnsweredError
              ELSE IF get_json(NewResponse.body).val.type = "dict" THEN AnsweredOkAndStarted
              ELSE AnsweredError
       /\ BackgroundContained
       /\ ResponsesKept]_vars

\* with no bot, an update was answered 200 'OK' and its processing ended in a logged
\* exception; the next request, not JSON, was answered 500 'ERROR' with no thread
C21_Witness ==
    /\ call.bot_application = "None"
    /\ Len(call.responses) = 2
    /\ call.responses[1] = [body |-> "{\"update_id\": 7}", status |-> 200, text |-> "OK"]
    /\ call.responses[2] = [body |-> "not json", status |-> 500, text |-> "ERROR"]
    /\ call.threads = <<[update_data |-> "{\"update_id\": 7}", pc |-> "logged"]>>

\* a finished /broadcast of an admin
AdminBroadcastDone ==
    /\ call.op = "/broadcast"
    /\ call.done
    /\ call.user \in ADMIN_IDS

\* the users of the list to whom the send fails, counted with their repetitions
FailedSends == Cardinality({i \in 1..Len(call.users) : call.users[i] \in call.failing})

\* C22: a broadcast of an admin with a message and n >= 1 users makes exactly one
\* send attempt per user in the order of the user list; a failed send is counted and
\* neither stops nor skips the remaining users; the loop ends and the final report
\* has success + failed = total = n. With no message or no users nothing is sent.
C22_BroadcastReachesEveryUser ==
    AdminBroadcastDone =>
        IF call.source \in {"reply", "args"} /\ Len(call.users) >= 1
        THEN /\ call.reply = "broadcast_complete"
             /\ call.sent_to = call.users
             /\ call.shown = <<Len(call.users) - FailedSends, FailedSends, Len(call.users)>>
             /\ call.shown[1] + call.shown[2] = call.shown[3]
        ELSE /\ call.sent_to = <<>>
             /\ call.reply \in {"usage", "no_text", "no_users"}

\* a broadcast to three users of whom the first fails: the two others are still
\* attempted, and the report counts 2 sent, 1 failed, 3 in all
C22_Witness ==
    /\ AdminBroadcastDone
    /\ call.users = <<"1001", "1002", "5487394544">>
    /\ call.failing = {"1001"}
    /\ call.sent_to = <<"1001", "1002", "5487394544">>
    /\ call.shown = <<2, 1, 3>>

\* ------------------------------------------------------------ SpecPage
\* a style list of n distinct decorative templates, the k-th one a glyph of its own
\* before the placeholder
ItemStyles(n) == [k \in 1..n |-> <<9000 + k, 123, 125>>]

\* a session that holds the name "Ma" and a decorative style list of n items
PageSession(n) ==
    Put(Put(Put(EmptyDict, "name", <<77, 97>>), "current_category", "decorative"),
        "current_styles", ItemStyles(n))

\* the pages requested: those of PageArgs and every page of the longest list
PageRequests == PageArgs \cup (1..((MaxItems + ITEMS_PER_PAGE - 1) \div ITEMS_PER_PAGE))

\* show_styles_page is about to be called with page p on a list of n styles
PageInit ==
    /\ TRANSLATION_TABLES = FULL_TABLES
    /\ storage = EmptyDict
    /\ \E n \in 0..MaxItems : user_data = PageSession(n)
    /\ \E p \in PageRequests :
           call = [op |-> "show_styles_page", requested |-> p, done |-> FALSE]

ShowStylesPage ==
    /\ call.op = "show_styles_page"
    /\ ~call.done
    /\ \E r \in {show_styles_page(TRANSLATION_TABLES, user_data, storage, call.requested)} :
           /\ user_data' = r.user_data
           /\ storage' = r.storage
           /\ call' = [op |-> "show_styles_page", requested |-> call.requested,
                       done |-> TRUE, shown |-> r.shown]
    /\ UNCHANGED TRANSLATION_TABLES

PageNext == ShowStylesPage

SpecPage == PageInit /\ [][PageNext]_vars

\* ------------------------------------------------------------ claims on SpecPage
\* ceil(n / 10), at least 1
PageCount(n) == Max(1, (n + ITEMS_PER_PAGE - 1) \div ITEMS_PER_PAGE)

\* the texts on the buttons of page p of the session, in order
ButtonsOfPage(p) ==
    LET shown == show_styles_page(TRANSLATION_TABLES, user_data, storage, p).shown
    IN  [i \in 1..Len(shown.buttons) |-> shown.buttons[i].styled_text]

\* the text the k-th item of the session's style list renders to (k from 0)
ItemText(k) ==
    generate_styled_text(TRANSLATION_TABLES, user_data["name"],
                         user_data["current_category"],
                         user_data["current_styles"][k + 1]).val

\* a page of the style list was displayed
PageDisplayed ==
    /\ call.op = "show_styles_page"
    /\ call.done
    /\ call.shown.view = "page"

\* C11: n items make max(1, ceil(n/10)) pages; displayed page p shows exactly items
\* (p-1)*10 .. min(p*10, n)-1 in catalog order; every item is on exactly one page,
\* every page but the last has 10 items, the last has n - 10*(pages - 1), and the
\* single page of an empty list is empty.
C11_PagesPartitionStyles ==
    PageDisplayed =>
        LET n == Len(user_data["current_styles"])
            T == PageCount(n)
            p == call.shown.page
            first == (p - 1) * ITEMS_PER_PAGE
            last == Min(p * ITEMS_PER_PAGE, n) - 1
            shownTexts == [i \in 1..Len(call.shown.buttons) |->
                              call.shown.buttons[i].styled_text]
            pages == [q \in 1..T |-> ButtonsOfPage(q)]
        IN  /\ call.shown.total_pages = T
            /\ p \in 1..T
            /\ shownTexts = [i \in 1..(last - first + 1) |-> ItemText(first + i - 1)]
            /\ \A k \in 0..(n - 1) :
                   Cardinality({q \in 1..T : ItemText(k) \in Range(pages[q])}) = 1
            /\ \A q \in 1..(T - 1) : Len(pages[q]) = ITEMS_PER_PAGE
            /\ Len(pages[T]) = n - ITEMS_PER_PAGE * (T - 1)
            /\ n = 0 => shownTexts = <<>>

\* 23 items: 3 pages, and page 3 displayed with items 20, 21 and 22
C11_Witness ==
    /\ PageDisplayed
    /\ Len(user_data["current_styles"]) = 23
    /\ call.shown.total_pages = 3
    /\ call.shown.page = 3
    /\ Len(call.shown.buttons) = 3
    /\ call.shown.buttons[1].styled_text = <<9021, 77, 97>>

\* ------------------------------------------------------------ SpecThreads
\* webhook starts one thread per update, each with an event loop of its own; the
\* threads share TextStorage._storage. A thread runs store_text in three steps (the
\* call, the digest of the text, the dict assignment) and get_text in two (the call,
\* dict.get); each dict operation is one atomic step of the interpreter.
Threads == 1..MaxThreads

IdleThread ==
    [op |-> "none", pc |-> "idle", text |-> <<>>, text_hash |-> 0, ret |-> <<>>]

\* `call` holds each thread's position and the texts store_text has assigned so far
ThreadsInit ==
    /\ TRANSLATION_TABLES = FULL_TABLES
    /\ storage = EmptyDict
    /\ user_data = EmptyDict
    /\ call = [threads |-> [t \in Threads |-> IdleThread], written |-> {}]

\* thread t moves to the position `next`
ThreadMoves(t, next, written) ==
    call' = [threads |-> [call.threads EXCEPT ![t] = next], written |-> written]

StoreBegin(t) ==
    /\ call.threads[t].pc = "idle"
    /\ \E text \in StoreTexts :
           ThreadMoves(t, [IdleThread EXCEPT !.op = "store_text", !.pc = "hash",
                                            !.text = text], call.written)
    /\ UNCHANGED <<TRANSLATION_TABLES, storage, user_data>>

\* text_hash = hashlib.md5(text.encode()).hexdigest()[:16]
StoreHash(t) ==
    /\ call.threads[t].pc = "hash"
    /\ ThreadMoves(t, [call.threads[t] EXCEPT !.pc = "assign",
                           !.text_hash = md5_hexdigest16(call.threads[t].text)],
                   call.written)
    /\ UNCHANGED <<TRANSLATION_TABLES, storage, user_data>>

\* cls._storage[text_hash] = text
StoreAssign(t) ==
    /\ call.threads[t].pc = "assign"
    /\ storage' = Put(storage, call.threads[t].text_hash, call.threads[t].text)
    /\ ThreadMoves(t, [call.threads[t] EXCEPT !.pc = "done"],
                   call.written \cup {call.threads[t].text})
    /\ UNCHANGED <<TRANSLATION_TABLES, user_data>>

GetBegin(t) ==
    /\ call.threads[t].pc = "idle"
    /\ \E text_hash \in ProbeHashes :
           ThreadMoves(t, [IdleThread EXCEPT !.op = "get_text", !.pc = "get",
                                            !.text_hash = text_hash], call.written)
    /\ UNCHANGED <<TRANSLATION_TABLES, storage, user_data>>

\* return cls._storage.get(text_hash, "")
GetLookup(t) ==
    /\ call.threads[t].pc = "get"
    /\ ThreadMoves(t, [call.threads[t] EXCEPT !.pc = "done",
                           !.ret = get_text(storage, call.threads[t].text_hash)],
                   call.written)
    /\ UNCHANGED <<TRANSLATION_TABLES, storage, user_data>>

\* the call returns and the thread takes its next call
ThreadReturn(t) ==
    /\ call.threads[t].pc = "done"
    /\ ThreadMoves(t, IdleThread, call.written)
    /\ UNCHANGED <<TRANSLATION_TABLES, storage, user_data>>

ThreadsNext ==
    \E t \in Threads :
        \/ StoreBegin(t)
        \/ StoreHash(t)
        \/ StoreAssign(t)
        \/ GetBegin(t)
        \/ GetLookup(t)
        \/ ThreadReturn(t)

SpecThreads == ThreadsInit /\ [][ThreadsNext]_vars

\* ------------------------------------------------------------ claims on SpecThreads
\* a text that some store call wrote and whose fingerprint is h
WrittenUnder(text, h) ==
    /\ text \in call.written
    /\ md5_hexdigest16(text) = h

\* every entry is a written text under its own fingerprint, and every finished
\* get_text returned the not-found value or such a text
RegistryUncorrupted ==
    /\ \A h \in DOMAIN storage : WrittenUnder(storage[h], h)
    /\ \A t \in Threads :
           call.threads[t].op = "get_text" /\ call.threads[t].pc = "done" =>
               \/ call.threads[t].ret = <<>>
               \/ WrittenUnder(call.threads[t].ret, call.threads[t].text_hash)

\* a step keeps every entry; the assignment of a store_text leaves exactly its text
\* under its fingerprint and the other entries as they were, whatever was there and
\* whatever the other threads are in the middle of; no other step changes the registry
AtomicLastWriterWins ==
    /\ \A h \in DOMAIN storage : h \in DOMAIN storage'
    /\ \A t \in Threads :
           call.threads[t].pc = "assign" /\ call'.threads[t].pc = "done" =>
               /\ storage'[call.threads[t].text_hash] = call.threads[t].text
               /\ \A h \in DOMAIN storage \ {call.threads[t].text_hash} :
                      storage'[h] = storage[h]
    /\ (\A t \in Threads :
           ~(call.threads[t].pc = "assign" /\ call'.threads[t].pc = "done"))
           => storage' = storage

\* C12: under any interleaving of the threads' store_text and get_text calls each
\* call takes effect atomically and the registry is never corrupted: every entry is
\* a text some store wrote, under its own fingerprint; get_text returns not-found or
\* such a text; of two stores with one fingerprint the one assigned last is held.
C12_ConcurrentStoreLookup ==
    []RegistryUncorrupted /\ [][AtomicLastWriterWins]_vars

\* "ab" and "ba" were both stored under their common fingerprint, the registry holds
\* "ba", and a thread is in the middle of a store while another finished a lookup
\* that returned "ba"
C12_Witness ==
    /\ {<<97, 98>>, <<98, 97>>} \subseteq call.written
    /\ storage[md5_hexdigest16(<<97, 98>>)] = <<98, 97>>
    /\ \E t \in Threads : call.threads[t].pc = "assign"
    /\ \E t \in Threads : /\ call.threads[t].op = "get_text"
                          /\ call.threads[t].pc = "done"
                          /\ call.threads[t].ret = <<98, 97>>

====
